---- MODULE Spec2Model ----
(***************************************************************************)
(* The log writer of db/log_writer.cc: Writer::AddRecord splits a logical  *)
(* record into physical fragments that never cross a block boundary, and   *)
(* Writer::EmitPhysicalRecord writes one fragment (header, payload, flush) *)
(* to the destination file.                                                *)
(*                                                                         *)
(* The destination is the environment: every Append and Flush may succeed  *)
(* or fail.  A failed Append leaves the file as it was.  Bytes are kept    *)
(* as extents (which record, from which offset, how many) so that blocks   *)
(* keep their real size.                                                   *)
(***************************************************************************)
EXTENDS Integers, Sequences, FiniteSets, TLC

\* ---------------------------------------------------------------- format
kBlockSize == 32768
kHeaderSize == 7

kZeroType == 0
kFullType == 1
kFirstType == 2
kMiddleType == 3
kLastType == 4
kMaxRecordType == kLastType

\* ---------------------------------------------------------------- bounds
\* AddRecord calls made on one writer.
MaxRecords == 2
\* Destination calls that fail in one run.
MaxFailures == 1

\* Record sizes handed to AddRecord: empty, one byte, a record that leaves
\* five bytes in a fresh block, one that leaves exactly a header, one that
\* fills a fresh block to the last byte, one that is one byte longer, and
\* one that spans four blocks.
RecordSizes ==
  { 0, 1,
    kBlockSize - kHeaderSize - 5,
    kBlockSize - 2 * kHeaderSize,
    kBlockSize - kHeaderSize,
    kBlockSize - kHeaderSize + 1,
    kBlockSize * 3 + 100 }

\* Lengths of the existing file a writer is resumed at: inside the second
\* block, five bytes before the end of a block, and at the end of a block.
DestLengths == { kBlockSize + 10, kBlockSize - 5, 2 * kBlockSize }

\* size_t arithmetic wraps.  TLC's integers are 32 bits wide, so the
\* wrap is taken at 2^30: like 2^64 it is far above every size in this model.
SizeTModulus == 2 ^ 30
ToSizeT(x) == x % SizeTModulus

\* ---------------------------------------------------------------- status
OK == [ok |-> TRUE, id |-> 0]
\* The error the destination returns from its k-th call of one AddRecord.
IOError(k) == [ok |-> FALSE, id |-> k]

\* ---------------------------------------------------------------- checksum
\* crc32c is used through its law Extend(Value(a), b) = Value(a \o b): a crc
\* is represented by the data it covers (pieces of no bytes left out), and
\* Mask wraps it.
NonEmpty(piece) == piece.len > 0
crc32c_Value(data) == SelectSeq(data, NonEmpty)
crc32c_Extend(crc, data) == crc \o SelectSeq(data, NonEmpty)
crc32c_Mask(crc) == [masked |-> crc]

\* A piece of data: the type byte, or n bytes of record rec from offset from.
TypeByte(i) == [kind |-> "type", rec |-> i, from |-> 0, len |-> 1]
Data(rec, from, n) == [kind |-> "data", rec |-> rec, from |-> from, len |-> n]
Zeros(n) == [kind |-> "zeros", rec |-> 0, from |-> 0, len |-> n]
Existing(n) == [kind |-> "old", rec |-> 0, from |-> 0, len |-> n]

InitTypeCrc == [i \in 0..kMaxRecordType |-> crc32c_Value(<<TypeByte(i)>>)]

VARIABLES
  block_offset_,   \* Writer::block_offset_
  type_crc_,       \* Writer::type_crc_
  dest_,           \* the file behind Writer::dest_: the slices appended
  dest_length,     \* the constructor's dest_length, -1 for the fresh writer
  pc,              \* where the writer is: "idle" between AddRecord calls
  slice,           \* AddRecord's argument
  ptr,             \* AddRecord: offset of ptr into slice
  left,            \* AddRecord: left
  begin,           \* AddRecord: begin
  s,               \* AddRecord: s
  t,               \* EmitPhysicalRecord: t
  length,          \* EmitPhysicalRecord: length
  es,              \* EmitPhysicalRecord: s
  calls,           \* destination calls of the current AddRecord, in order
  emitted,         \* EmitPhysicalRecord calls of the current AddRecord
  returned,        \* the AddRecord calls that returned: size and status
  entry_offset,    \* block_offset_ when the current AddRecord was entered
  failures         \* destination calls that failed in this run

vars ==
  << block_offset_, type_crc_, dest_, dest_length, pc, slice, ptr, left, begin,
     s, t, length, es, calls, emitted, returned, entry_offset, failures >>

locals == << slice, ptr, left, begin, s, t, length, es, entry_offset >>

\* ---------------------------------------------------------------- destination
\* What the destination may answer to its next call.
Outcomes == IF failures < MaxFailures THEN {TRUE, FALSE} ELSE {TRUE}

StatusOf(ok) == IF ok THEN OK ELSE IOError(Len(calls) + 1)

Call(op, what, n, ok) == [op |-> op, what |-> what, n |-> n, ok |-> ok]

\* WritableFile::Append(data): the slice reaches the file when it succeeds.
DestAppend(what, chunk, ok) ==
  /\ dest_' = IF ok THEN Append(dest_, chunk) ELSE dest_
  /\ calls' = Append(calls, Call("Append", what, chunk.len, ok))
  /\ failures' = IF ok THEN failures ELSE failures + 1

\* WritableFile::Flush()
DestFlush(ok) ==
  /\ dest_' = dest_
  /\ calls' = Append(calls, Call("Flush", "flush", 0, ok))
  /\ failures' = IF ok THEN failures ELSE failures + 1

\* ---------------------------------------------------------------- writer
\* A resuming constructor that starts at offset 0 like the fresh one.
InitialBlockOffset_AlwaysZero(len) == 0

\* A constructor that takes dest_length for the offset, without the modulo.
InitialBlockOffset_NoModulo(len) == IF len < 0 THEN 0 ELSE len

\* Writer::Writer(dest) and Writer::Writer(dest, dest_length)
InitialBlockOffset(len) == IF len < 0 THEN 0 ELSE len % kBlockSize

Init ==
  /\ dest_length \in {-1} \cup DestLengths
  /\ block_offset_ = InitialBlockOffset(dest_length)
  /\ type_crc_ = InitTypeCrc
  /\ dest_ = IF dest_length > 0 THEN <<Existing(dest_length)>> ELSE <<>>
  /\ pc = "idle"
  /\ slice = [id |-> 0, size |-> 0]
  /\ ptr = 0
  /\ left = 0
  /\ begin = FALSE
  /\ s = OK
  /\ t = kZeroType
  /\ length = 0
  /\ es = OK
  /\ calls = <<>>
  /\ emitted = <<>>
  /\ returned = <<>>
  /\ entry_offset = block_offset_
  /\ failures = 0

\* An AddRecord whose loop tests left > 0 before its first iteration.
AddRecord_WhileLoop(n) ==
  /\ pc = "idle"
  /\ Len(returned) < MaxRecords
  /\ slice' = [id |-> Len(returned) + 1, size |-> n]
  /\ ptr' = 0
  /\ left' = n
  /\ s' = OK
  /\ begin' = TRUE
  /\ calls' = <<>>
  /\ emitted' = <<>>
  /\ entry_offset' = block_offset_
  /\ length' = 0
  /\ pc' = IF n > 0 THEN "top" ELSE "tail"
  /\ UNCHANGED << block_offset_, type_crc_, dest_, dest_length, t, es,
                  returned, failures >>

\* AddRecord, lines 38-45: entry.
AddRecord(n) ==
  /\ pc = "idle"
  /\ Len(returned) < MaxRecords
  /\ slice' = [id |-> Len(returned) + 1, size |-> n]
  /\ ptr' = 0
  /\ left' = n
  /\ s' = OK
  /\ begin' = TRUE
  /\ calls' = <<>>
  /\ emitted' = <<>>
  /\ entry_offset' = block_offset_
  /\ pc' = "top"
  /\ UNCHANGED << block_offset_, type_crc_, dest_, dest_length, t, length, es,
                  returned, failures >>

\* AddRecord, line 48.
Leftover == kBlockSize - block_offset_

\* A test that starts a new block only when the block is full.
NeedsNewBlock_OnlyWhenFull(leftover) == leftover <= 0

\* AddRecord, line 55.
NeedsNewBlock(leftover) == leftover < kHeaderSize

\* A trailer that always takes the whole six-zero literal.
TrailerSlice_WholeLiteral(leftover) == Zeros(kHeaderSize - 1)

\* AddRecord, line 61: the first leftover bytes of the six-zero literal.
TrailerSlice(leftover) == Zeros(leftover)

\* AddRecord, lines 55-68, leftover = 0: a new block, nothing to fill.
SwitchBlock ==
  /\ pc = "top"
  /\ NeedsNewBlock(Leftover)
  /\ ~(Leftover > 0)
  /\ block_offset_' = 0
  /\ pc' = "frag"
  /\ UNCHANGED << type_crc_, dest_, dest_length, locals, calls, emitted,
                  returned, failures >>

\* A block switch that moves to offset 0 without filling the trailer.
FillTrailer_NoPadding(ok) ==
  /\ pc = "top"
  /\ NeedsNewBlock(Leftover)
  /\ Leftover > 0
  /\ block_offset_' = 0
  /\ pc' = "frag"
  /\ UNCHANGED << type_crc_, dest_, dest_length, locals, calls, emitted,
                  returned, failures >>

\* AddRecord, lines 55-68, 0 < leftover < kHeaderSize: the trailer is filled
\* with zeros; the status of this Append is dropped.
FillTrailer(ok) ==
  /\ pc = "top"
  /\ NeedsNewBlock(Leftover)
  /\ Leftover > 0
  /\ DestAppend("trailer", TrailerSlice(Leftover), ok)
  /\ block_offset_' = 0
  /\ pc' = "frag"
  /\ UNCHANGED << type_crc_, dest_length, locals, emitted, returned >>

\* AddRecord, line 55 not taken: the header fits in this block.
StayInBlock ==
  /\ pc = "top"
  /\ ~NeedsNewBlock(Leftover)
  /\ pc' = "frag"
  /\ UNCHANGED << block_offset_, type_crc_, dest_, dest_length, locals, calls,
                  emitted, returned, failures >>

\* A room computation that forgets the header of the fragment.
Avail_WithoutHeader == ToSizeT(kBlockSize - block_offset_)

\* AddRecord, line 80.
Avail == ToSizeT(kBlockSize - block_offset_ - kHeaderSize)

\* A split that stops one byte short of the end of the block.
FragmentLength_OneShort(l, avail) == IF l < avail THEN l ELSE avail - 1

\* A fragment that takes all that is left of the record.
FragmentLength_Unsplit(l, avail) == l

\* AddRecord, line 84.
FragmentLength(l, avail) == IF l < avail THEN l ELSE avail

\* A type choice that tests end before begin and so never yields Full.
TypeOf_EndBeforeBegin(b, end) ==
  IF end THEN kLastType
  ELSE IF b THEN kFirstType
  ELSE kMiddleType

\* AddRecord, lines 88-102.
TypeOf(b, end) ==
  IF b /\ end THEN kFullType
  ELSE IF b THEN kFirstType
  ELSE IF end THEN kLastType
  ELSE kMiddleType

\* AddRecord, lines 80-106: the fragment is chosen and EmitPhysicalRecord
\* is entered.
ChooseFragment ==
  /\ pc = "frag"
  /\ LET fragment_length == FragmentLength(left, Avail)
         end == (left = fragment_length)
     IN /\ t' = TypeOf(begin, end)
        /\ length' = fragment_length
        /\ emitted' = Append(emitted,
             [type |-> TypeOf(begin, end), length |-> fragment_length,
              offset |-> block_offset_, ptr |-> ptr])
  /\ pc' = "emit"
  /\ UNCHANGED << block_offset_, type_crc_, dest_, dest_length, slice, ptr,
                  left, begin, s, es, calls, returned, failures,
                  entry_offset >>

\* A header that stores the length with its high byte first.
Header_LengthBigEndian(type, rec, from, n) ==
  LET crc == crc32c_Mask(crc32c_Extend(type_crc_[type], <<Data(rec, from, n)>>))
  IN [crc |-> crc, lo |-> (n \div 256) % 256, hi |-> n % 256, type |-> type]

\* A header whose checksum starts from the seed of the zero type.
Header_SeedOfZeroType(type, rec, from, n) ==
  LET crc ==
        crc32c_Mask(crc32c_Extend(type_crc_[kZeroType], <<Data(rec, from, n)>>))
  IN [crc |-> crc, lo |-> n % 256, hi |-> (n \div 256) % 256, type |-> type]

\* EmitPhysicalRecord, lines 132-144: the seven bytes of the header.
Header(type, rec, from, n) ==
  LET crc == crc32c_Mask(crc32c_Extend(type_crc_[type], <<Data(rec, from, n)>>))
  IN [crc |-> crc, lo |-> n % 256, hi |-> (n \div 256) % 256, type |-> type]

HeaderChunk(type, rec, from, n) ==
  [kind |-> "hdr", rec |-> Header(type, rec, from, n), from |-> 0,
   len |-> kHeaderSize]

\* A header Append whose status is not tested before the payload Append.
AppendHeader_Unchecked(ok) ==
  /\ pc = "emit"
  /\ DestAppend("header", HeaderChunk(t, slice.id, ptr, length), ok)
  /\ es' = StatusOf(ok)
  /\ pc' = "payload"
  /\ UNCHANGED << block_offset_, type_crc_, dest_length, slice, ptr, left,
                  begin, s, t, length, emitted, returned,
                  entry_offset >>

\* EmitPhysicalRecord, line 147.
AppendHeader(ok) ==
  /\ pc = "emit"
  /\ DestAppend("header", HeaderChunk(t, slice.id, ptr, length), ok)
  /\ es' = StatusOf(ok)
  /\ pc' = IF ok THEN "payload" ELSE "advance"
  /\ UNCHANGED << block_offset_, type_crc_, dest_length, slice, ptr, left,
                  begin, s, t, length, emitted, returned,
                  entry_offset >>

\* EmitPhysicalRecord, lines 148-149.
AppendPayload(ok) ==
  /\ pc = "payload"
  /\ DestAppend("payload", Data(slice.id, ptr, length), ok)
  /\ es' = StatusOf(ok)
  /\ pc' = IF ok THEN "flush" ELSE "advance"
  /\ UNCHANGED << block_offset_, type_crc_, dest_length, slice, ptr, left,
                  begin, s, t, length, emitted, returned,
                  entry_offset >>

\* EmitPhysicalRecord, lines 152-154.
Flush(ok) ==
  /\ pc = "flush"
  /\ DestFlush(ok)
  /\ es' = StatusOf(ok)
  /\ pc' = "advance"
  /\ UNCHANGED << block_offset_, type_crc_, dest_length, slice, ptr, left,
                  begin, s, t, length, emitted, returned,
                  entry_offset >>

\* EmitPhysicalRecord, line 157.
AdvancedOffset(offset, n) == offset + kHeaderSize + n

\* An EmitPhysicalRecord that advances the offset only when it succeeded.
EmitReturn_AdvanceOnSuccess ==
  /\ pc = "advance"
  /\ block_offset_' =
       IF es.ok THEN block_offset_ + kHeaderSize + length ELSE block_offset_
  /\ s' = es
  /\ pc' = "tail"
  /\ UNCHANGED << type_crc_, dest_, dest_length, slice, ptr, left, begin, t,
                  length, es, calls, emitted, returned, failures,
                  entry_offset >>

\* EmitPhysicalRecord, lines 157-158, and the assignment of line 106.
EmitReturn ==
  /\ pc = "advance"
  /\ block_offset_' = AdvancedOffset(block_offset_, length)
  /\ s' = es
  /\ pc' = "tail"
  /\ UNCHANGED << type_crc_, dest_, dest_length, slice, ptr, left, begin, t,
                  length, es, calls, emitted, returned, failures,
                  entry_offset >>

\* A loop condition that is always true of the unsigned left.
Continue_WhileNotNegative(status, l) == status.ok /\ l >= 0

\* A loop condition that does not look at the status.
Continue_IgnoringStatus(status, l) == l > 0

\* AddRecord, line 113.
Continue(status, l) == status.ok /\ l > 0

\* A loop that advances ptr and forgets to take the fragment off left.
LoopAgain_LeftNotDecremented ==
  /\ pc = "tail"
  /\ Continue(s, left)
  /\ ptr' = ptr + length
  /\ left' = left
  /\ begin' = FALSE
  /\ pc' = "top"
  /\ UNCHANGED << block_offset_, type_crc_, dest_, dest_length, slice, s, t,
                  length, es, calls, emitted, returned, failures,
                  entry_offset >>

\* AddRecord, lines 108-113: the loop goes round.
LoopAgain ==
  /\ pc = "tail"
  /\ Continue(s, ToSizeT(left - length))
  /\ ptr' = ptr + length
  /\ left' = ToSizeT(left - length)
  /\ begin' = FALSE
  /\ pc' = "top"
  /\ UNCHANGED << block_offset_, type_crc_, dest_, dest_length, slice, s, t,
                  length, es, calls, emitted, returned, failures,
                  entry_offset >>

\* AddRecord, lines 108-114: the loop ends and s is returned.
Return ==
  /\ pc = "tail"
  /\ ~Continue(s, ToSizeT(left - length))
  /\ ptr' = ptr + length
  /\ left' = ToSizeT(left - length)
  /\ begin' = FALSE
  /\ returned' = Append(returned, [size |-> slice.size, status |-> s])
  /\ pc' = "idle"
  /\ UNCHANGED << block_offset_, type_crc_, dest_, dest_length, slice, s, t,
                  length, es, calls, emitted, failures,
                  entry_offset >>

Next ==
  \/ \E n \in RecordSizes : AddRecord(n)
  \/ SwitchBlock
  \/ \E ok \in Outcomes : FillTrailer(ok)
  \/ StayInBlock
  \/ ChooseFragment
  \/ \E ok \in Outcomes : AppendHeader(ok)
  \/ \E ok \in Outcomes : AppendPayload(ok)
  \/ \E ok \in Outcomes : Flush(ok)
  \/ EmitReturn
  \/ LoopAgain
  \/ Return

Spec == Init /\ [][Next]_vars

\* AddRecord runs to its end: the destination calls are blocking calls that
\* return, and nothing else can hold a step of the writer back.
FairSpec == Spec /\ WF_vars(Next)

\* ---------------------------------------------------------------- reader
\* The reference reader of the round trip: it walks the bytes of the file
\* block by block, skips a block tail shorter than kHeaderSize, reads the
\* length and type of each header and collects the payloads from a Full or
\* First fragment up to the matching Full or Last one.  It does not verify
\* checksums.

\* Byte j of the record handed to the id-th AddRecord call.
RecordByte(id, j) == (41 * id + 7 * j + 1) % 256

RECURSIVE FileSize(_)
FileSize(file) ==
  IF file = <<>> THEN 0 ELSE Head(file).len + FileSize(Tail(file))

\* The byte of chunk c at offset off: known with its value, or not known
\* (checksum bytes, bytes of the file the writer was resumed at).
ChunkByte(c, off) ==
  CASE c.kind = "zeros" -> [known |-> TRUE, val |-> 0]
    [] c.kind = "data" ->
         [known |-> TRUE, val |-> RecordByte(c.rec, c.from + off)]
    [] c.kind = "hdr" /\ off = 4 -> [known |-> TRUE, val |-> c.rec.lo]
    [] c.kind = "hdr" /\ off = 5 -> [known |-> TRUE, val |-> c.rec.hi]
    [] c.kind = "hdr" /\ off = 6 -> [known |-> TRUE, val |-> c.rec.type]
    [] OTHER -> [known |-> FALSE, val |-> 0]

\* The byte at position pos of the file, pos < FileSize(file).
RECURSIVE ByteAt(_, _)
ByteAt(file, pos) ==
  IF pos < Head(file).len THEN ChunkByte(Head(file), pos)
  ELSE ByteAt(Tail(file), pos - Head(file).len)

\* The part of chunk c from offset off, n bytes long, as a piece of data.
Piece(c, off, n) ==
  IF c.kind = "data" THEN Data(c.rec, c.from + off, n)
  ELSE [kind |-> c.kind, rec |-> 0, from |-> off, len |-> n]

\* Data a followed by data b, adjacent bytes of one record joined.
Join(a, b) ==
  IF a = <<>> \/ b = <<>> THEN a \o b
  ELSE LET x == a[Len(a)]
           y == Head(b)
       IN IF x.kind = "data" /\ y.kind = "data" /\ x.rec = y.rec
             /\ x.from + x.len = y.from
          THEN SubSeq(a, 1, Len(a) - 1) \o <<Data(x.rec, x.from, x.len + y.len)>>
               \o Tail(b)
          ELSE a \o b

\* The n bytes of the file from position pos, pos + n <= FileSize(file).
RECURSIVE Bytes(_, _, _)
Bytes(file, pos, n) ==
  IF n = 0 THEN <<>>
  ELSE LET c == Head(file)
       IN IF pos >= c.len THEN Bytes(Tail(file), pos - c.len, n)
          ELSE LET k == IF c.len - pos < n THEN c.len - pos ELSE n
               IN Join(<<Piece(c, pos, k)>>, Bytes(Tail(file), 0, n - k))

\* The records read from position pos on; acc is the payload collected since
\* the last First fragment when open holds; out the records read so far.  A
\* header that cannot be decoded, that runs past its block or past the end
\* of the file ends the reading.
RECURSIVE ReadFrom(_, _, _, _, _)
ReadFrom(file, pos, open, acc, out) ==
  LET tail == kBlockSize - (pos % kBlockSize)
  IN IF tail < kHeaderSize THEN ReadFrom(file, pos + tail, open, acc, out)
     ELSE IF pos + kHeaderSize > FileSize(file) THEN out
     ELSE LET lo == ByteAt(file, pos + 4)
              hi == ByteAt(file, pos + 5)
              ty == ByteAt(file, pos + 6)
              n == lo.val + 256 * hi.val
              next == pos + kHeaderSize + n
          IN IF ~(lo.known /\ hi.known /\ ty.known) THEN out
             ELSE IF kHeaderSize + n > tail \/ next > FileSize(file) THEN out
             ELSE LET payload == Bytes(file, pos + kHeaderSize, n)
                  IN CASE ty.val = kFullType ->
                            ReadFrom(file, next, FALSE, <<>>, Append(out, payload))
                       [] ty.val = kFirstType ->
                            ReadFrom(file, next, TRUE, payload, out)
                       [] ty.val = kMiddleType /\ open ->
                            ReadFrom(file, next, TRUE, Join(acc, payload), out)
                       [] ty.val = kLastType /\ open ->
                            ReadFrom(file, next, FALSE, <<>>,
                                     Append(out, Join(acc, payload)))
                       [] OTHER -> ReadFrom(file, next, FALSE, <<>>, out)

ReadRecords(file) == ReadFrom(file, 0, FALSE, <<>>, <<>>)

\* The record of size n handed to the id-th AddRecord call, as data.
Record(id, n) == IF n = 0 THEN <<>> ELSE <<Data(id, 0, n)>>

\* The records handed to the AddRecord calls that have returned.
Written == [i \in 1..Len(returned) |-> Record(i, returned[i].size)]

\* ---------------------------------------------------------------- properties
Last(q) == q[Len(q)]

\* The AddRecord call that was entered last has returned.
AtRest == pc = "idle" /\ Len(returned) > 0

\* EmitPhysicalRecord has been entered and has not reached line 157.
InEmit == pc \in {"emit", "payload", "flush", "advance"}

Types(es_) == [i \in 1..Len(es_) |-> es_[i].type]

\* First Middle* : a split record that has not been closed.
OpenSplit(ts) ==
  /\ Len(ts) >= 1
  /\ ts[1] = kFirstType
  /\ \A i \in 2..Len(ts) : ts[i] = kMiddleType

\* Full, or First Middle* Last.
WholeRecord(ts) ==
  \/ ts = <<kFullType>>
  \/ /\ Len(ts) >= 2
     /\ OpenSplit(SubSeq(ts, 1, Len(ts) - 1))
     /\ ts[Len(ts)] = kLastType

\* A prefix of Full or of First Middle* Last.
RecordPrefix(ts) == ts = <<>> \/ WholeRecord(ts) \/ OpenSplit(ts)

\* The calls of kind what among the destination calls of this AddRecord.
CallsOf(what) == {i \in 1..Len(calls) : calls[i].what = what}
FailedCalls == {i \in 1..Len(calls) : ~calls[i].ok}
FragmentCalls == CallsOf("header") \cup CallsOf("payload") \cup CallsOf("flush")

\* C1: whenever EmitPhysicalRecord is entered, the fragment lies inside the
\* current block: block_offset_ + kHeaderSize + length <= kBlockSize (the
\* assertion of line 126), for fresh and resumed writers and after failures.
C1_FragmentInsideBlock ==
  /\ pc = "emit" => block_offset_ + kHeaderSize + length <= kBlockSize
  /\ \A i \in 1..Len(emitted) :
       emitted[i].offset + kHeaderSize + emitted[i].length <= kBlockSize

\* A fragment that ends exactly at the block boundary is entered by a resumed
\* writer in a run in which a destination call has failed.
C1_Witness ==
  /\ pc = "emit"
  /\ dest_length > 0
  /\ failures > 0
  /\ length > 0
  /\ block_offset_ > 0
  /\ block_offset_ + kHeaderSize + length = kBlockSize

\* C2: once every AddRecord call made on a fresh writer has returned
\* success, the reference reader reads back exactly the records written, in
\* order.
C2_RoundTrip ==
  (pc = "idle" /\ dest_length = -1
     /\ \A i \in 1..Len(returned) : returned[i].status.ok) =>
    ReadRecords(dest_) = Written

\* The round trip of the runs in which no destination call failed.
RoundTripWithoutFailure ==
  (pc = "idle" /\ dest_length = -1 /\ failures = 0) =>
    ReadRecords(dest_) = Written

\* Two records were written without a failure, the second one split behind
\* a filled trailer, and both are read back.
RoundTripWitness ==
  /\ AtRest
  /\ dest_length = -1
  /\ failures = 0
  /\ Len(returned) = 2
  /\ CallsOf("trailer") # {}
  /\ Len(emitted) > 1
  /\ ReadRecords(dest_) = Written

\* C3: the types emitted by one AddRecord call are Full, or First Middle*
\* Last, when the call returns success, and always a prefix of one of these.
C3_TypeSequence ==
  /\ RecordPrefix(Types(emitted))
  /\ (AtRest /\ Last(returned).status.ok) => WholeRecord(Types(emitted))
  /\ AtRest => Len(emitted) >= 1

\* A call that started in the middle of a block returned success after
\* First, Middle, Middle, Last.
C3_Witness ==
  /\ AtRest
  /\ Last(returned).status.ok
  /\ entry_offset > 0
  /\ Types(emitted) = <<kFirstType, kMiddleType, kMiddleType, kLastType>>

\* C4: AddRecord of an empty record enters EmitPhysicalRecord exactly once,
\* with type Full and length 0, whatever block_offset_ it starts from; the
\* trailer is filled first exactly when fewer than kHeaderSize bytes (and
\* more than none) were left in the block.
C4_EmptyRecord ==
  (slice.id > 0 /\ slice.size = 0) =>
    /\ Len(emitted) <= 1
    /\ pc \notin {"top", "frag"} =>
         /\ Len(emitted) = 1
         /\ emitted[1].type = kFullType
         /\ emitted[1].length = 0
         /\ (CallsOf("trailer") # {}) <=>
              (0 < kBlockSize - entry_offset /\
               kBlockSize - entry_offset < kHeaderSize)

\* An empty record was written behind a filled trailer.
C4_Witness ==
  /\ AtRest
  /\ slice.size = 0
  /\ Last(returned).status.ok
  /\ CallsOf("trailer") = {1}
  /\ Len(emitted) = 1

\* C5: an iteration of AddRecord's loop starts by filling the trailer with
\* exactly leftover zero bytes and moving to offset 0 when 0 < leftover <
\* kHeaderSize, by moving to offset 0 without an Append when leftover = 0,
\* and by doing nothing when leftover >= kHeaderSize.  From block_offset_ =
\* kBlockSize - 5 the call's first destination call appends five zeros and
\* its first fragment is emitted at offset 0.
C5_TrailerStep ==
  LET leftover == kBlockSize - block_offset_
      fill == Call("Append", "trailer", leftover, calls'[Len(calls')].ok)
  IN pc = "top" =>
       /\ (0 < leftover /\ leftover < kHeaderSize) =>
            /\ calls' = Append(calls, fill)
            /\ dest_' \in {dest_, Append(dest_, Zeros(leftover))}
            /\ Last(calls').ok => dest_' = Append(dest_, Zeros(leftover))
            /\ block_offset_' = 0
       /\ leftover = 0 =>
            /\ calls' = calls
            /\ dest_' = dest_
            /\ block_offset_' = 0
       /\ leftover >= kHeaderSize =>
            /\ calls' = calls
            /\ dest_' = dest_
            /\ block_offset_' = block_offset_

C5_FiveBytesLeft ==
  (entry_offset = kBlockSize - 5 /\ slice.id > 0 /\ pc \notin {"top", "idle"}) =>
    /\ calls[1].what = "trailer"
    /\ calls[1].n = 5
    /\ Len(emitted) >= 1 => emitted[1].offset = 0

C5_Padding == [][C5_TrailerStep]_vars /\ []C5_FiveBytesLeft

\* Five zero bytes were appended before the header of the first fragment.
C5_Witness ==
  /\ entry_offset = kBlockSize - 5
  /\ Len(calls) >= 2
  /\ calls[1] = Call("Append", "trailer", 5, TRUE)
  /\ calls[2].what = "header"
  /\ dest_[Len(dest_) - 1] = Zeros(5)
  /\ emitted[1].offset = 0

\* C6: when a fragment is about to be chosen (the assertion of line 73), the
\* block has room for a header: kBlockSize - block_offset_ - kHeaderSize >= 0.
C6_RoomForHeader ==
  pc \in {"frag", "emit"} => kBlockSize - block_offset_ - kHeaderSize >= 0

\* The assertion is reached with exactly a header's room, in a new call
\* after a failed one.
C6_Witness ==
  /\ pc = "frag"
  /\ kBlockSize - block_offset_ - kHeaderSize = 0
  /\ Len(returned) > 0
  /\ ~Last(returned).status.ok

\* C7: a failed header Append, payload Append or Flush is the last
\* destination call of its AddRecord call, the rest of the record is not
\* emitted, and AddRecord returns that failure; AddRecord returns success
\* only if the header, payload and flush of every fragment succeeded.
C7_FragmentFailure ==
  /\ \A i \in FragmentCalls \cap FailedCalls :
       /\ i = Len(calls)
       /\ pc \in {"advance", "tail", "idle"}
       /\ pc = "tail" => s = IOError(i)
       /\ AtRest => Last(returned).status = IOError(i)
  /\ (AtRest /\ Last(returned).status.ok) =>
       /\ FragmentCalls \cap FailedCalls = {}
       /\ Cardinality(CallsOf("header")) = Len(emitted)
       /\ Cardinality(CallsOf("payload")) = Len(emitted)
       /\ Cardinality(CallsOf("flush")) = Len(emitted)

\* The payload Append of the second fragment failed and the call returned
\* with part of the record never emitted.
C7_Witness ==
  /\ AtRest
  /\ Len(emitted) = 2
  /\ Last(calls).what = "payload"
  /\ ~Last(calls).ok
  /\ Last(returned).status = IOError(Len(calls))
  /\ emitted[2].ptr + emitted[2].length < slice.size

\* C8: every failed destination call, the trailer Append included, is the
\* last destination call of its AddRecord call and is what AddRecord returns.
C8_AnyFailureAborts ==
  \A i \in FailedCalls :
    /\ i = Len(calls)
    /\ AtRest => Last(returned).status = IOError(i)

\* C9: EmitPhysicalRecord leaves block_offset_ alone until line 157 and
\* returns with it advanced by kHeaderSize + length, whether the header
\* Append, the payload Append or the Flush failed or all succeeded.
C9_CursorAdvance ==
  /\ InEmit => block_offset_ = Last(emitted).offset
  /\ pc = "tail" =>
       block_offset_ = Last(emitted).offset + kHeaderSize + Last(emitted).length

\* EmitPhysicalRecord returned a failed header Append of a fragment with
\* payload, and the cursor stands behind that payload.
C9_Witness ==
  /\ pc = "tail"
  /\ ~s.ok
  /\ Last(calls).what = "header"
  /\ length > 0
  /\ block_offset_ = Last(emitted).offset + kHeaderSize + length

\* C10 as stated: between records 0 <= block_offset_ < kBlockSize.
C10_AtRestBelowBlockSize ==
  pc = "idle" => (0 <= block_offset_ /\ block_offset_ < kBlockSize)

\* C10, amended: between records 0 <= block_offset_ <= kBlockSize; the
\* offset is kBlockSize after a record whose last fragment filled its block.
C10_AtRestWithinBlock ==
  pc = "idle" => (0 <= block_offset_ /\ block_offset_ <= kBlockSize)

\* A record has been written and the block is exactly full.
C10_Witness ==
  /\ AtRest
  /\ Last(returned).status.ok
  /\ block_offset_ = kBlockSize

\* The payload one fragment can carry in a block of its own.
FullPayload == kBlockSize - kHeaderSize

\* ceil(n / d)
CeilDiv(n, d) == (n + d - 1) \div d

Max(a, b) == IF a > b THEN a ELSE b

\* The first AddRecord call on the fresh writer.
FirstCallOnFresh == dest_length = -1 /\ slice.id = 1

\* C11: a record of n bytes given to a fresh writer is emitted in exactly
\* max(1, ceil(n / (kBlockSize - kHeaderSize))) fragments when AddRecord
\* returns success (never in more), every fragment but the last carrying
\* kBlockSize - kHeaderSize bytes; a record of kBlockSize * 3 + 100 bytes
\* gives First, Middle, Middle, Last.
C11_FragmentCount ==
  FirstCallOnFresh =>
    /\ Len(emitted) <= Max(1, CeilDiv(slice.size, FullPayload))
    /\ \A i \in 1..Len(emitted) - 1 : emitted[i].length = FullPayload
    /\ (AtRest /\ Last(returned).status.ok) =>
         /\ Len(emitted) = Max(1, CeilDiv(slice.size, FullPayload))
         /\ slice.size = kBlockSize * 3 + 100 =>
              Types(emitted) =
                <<kFirstType, kMiddleType, kMiddleType, kLastType>>

\* The record of kBlockSize * 3 + 100 bytes was written by a fresh writer in
\* four fragments, the last one of 121 bytes.
C11_Witness ==
  /\ FirstCallOnFresh
  /\ AtRest
  /\ Last(returned).status.ok
  /\ slice.size = kBlockSize * 3 + 100
  /\ Len(emitted) = 4
  /\ emitted[4].length = 121

\* The writer has been constructed and AddRecord has not been called.
Constructed == pc = "idle" /\ slice.id = 0

\* C12: after construction block_offset_ is 0 for the fresh writer and
\* dest_length mod kBlockSize for the resumed one (10 for kBlockSize + 10),
\* and the constructor has made no destination call: the file is as long as
\* it was.
C12_ResumeOffset ==
  Constructed =>
    /\ dest_length = -1 => block_offset_ = 0
    /\ dest_length >= 0 => block_offset_ = dest_length % kBlockSize
    /\ dest_length = kBlockSize + 10 => block_offset_ = 10
    /\ calls = <<>>
    /\ failures = 0
    /\ FileSize(dest_) = Max(dest_length, 0)

\* A writer resumed at kBlockSize + 10 stands at offset 10.
C12_Witness ==
  /\ Constructed
  /\ dest_length = kBlockSize + 10
  /\ block_offset_ = 10

\* C13: the destination calls of a fragment are the header Append of
\* kHeaderSize bytes, the payload Append, made only after a successful header
\* Append, and the Flush, made only after a successful payload Append; there
\* is one Flush for each fragment whose header and payload were appended and
\* none for the trailer.
C13_CallOrder ==
  /\ \A i \in 1..Len(calls) :
       /\ calls[i].what = "header" =>
            /\ calls[i].op = "Append"
            /\ calls[i].n = kHeaderSize
            /\ i > 1 => \/ calls[i - 1].what = "trailer"
                        \/ calls[i - 1].what = "flush" /\ calls[i - 1].ok
       /\ calls[i].what = "payload" =>
            /\ calls[i].op = "Append"
            /\ i > 1
            /\ calls[i - 1].what = "header"
            /\ calls[i - 1].ok
       /\ calls[i].what = "flush" =>
            /\ calls[i].op = "Flush"
            /\ i > 1
            /\ calls[i - 1].what = "payload"
            /\ calls[i - 1].ok
       /\ calls[i].what = "trailer" =>
            /\ calls[i].op = "Append"
            /\ i > 1 => calls[i - 1].what = "flush"
  /\ Cardinality(CallsOf("header")) =
       Len(emitted) - (IF pc = "emit" THEN 1 ELSE 0)
  /\ Cardinality({i \in CallsOf("payload") : calls[i].ok}) =
       Cardinality(CallsOf("flush")) + (IF pc = "flush" THEN 1 ELSE 0)

\* A call filled the trailer and wrote two fragments: seven destination
\* calls, two of them Flush.
C13_Witness ==
  /\ AtRest
  /\ Len(calls) = 7
  /\ calls[1].what = "trailer"
  /\ Len(emitted) = 2
  /\ Cardinality(CallsOf("flush")) = 2
  /\ Last(returned).status.ok

\* C14: every AddRecord call returns, having entered EmitPhysicalRecord at
\* least once and at most ceil(n / (kBlockSize - kHeaderSize)) + 1 times,
\* whatever offset it starts from and whichever destination calls fail.
C14_FragmentBound ==
  /\ Len(emitted) <= CeilDiv(slice.size, FullPayload) + 1
  /\ AtRest => Len(emitted) >= 1

C14_Termination == (pc # "idle" ~> pc = "idle") /\ []C14_FragmentBound

\* A call that started with exactly a header's room left has returned with
\* one fragment more than the record's bytes alone need.
C14_Witness ==
  /\ AtRest
  /\ slice.size > 0
  /\ entry_offset = kBlockSize - kHeaderSize
  /\ Len(emitted) = CeilDiv(slice.size, FullPayload) + 1

RecordTypes == {kFullType, kFirstType, kMiddleType, kLastType}

\* The headers that reached the file.
Headers == {i \in 1..Len(dest_) : dest_[i].kind = "hdr"}

\* The length the two length bytes of header h decode to.
DecodedLength(h) == h.lo + 256 * h.hi

\* C15: every header is kHeaderSize = 7 bytes; its byte 4 is length mod 256
\* and its byte 5 length div 256, so that the two decode to the length of
\* the fragment, which is at most 0xFFFF; its byte 6 is the type, one of
\* Full, First, Middle, Last and never 0; the payload Append that follows
\* carries exactly that many bytes.
C15_HeaderFormat ==
  /\ pc = "emit" => (length <= 65535 /\ t \in RecordTypes)
  /\ \A i \in Headers :
       /\ dest_[i].len = 7
       /\ dest_[i].rec.lo \in 0..255
       /\ dest_[i].rec.hi \in 0..255
       /\ dest_[i].rec.type \in RecordTypes
  /\ pc = "payload" =>
       /\ Last(calls) = Call("Append", "header", 7, TRUE)
       /\ Last(dest_).kind = "hdr"
       /\ Last(dest_).rec.lo = length % 256
       /\ Last(dest_).rec.hi = length \div 256
       /\ DecodedLength(Last(dest_).rec) = length
       /\ Last(dest_).rec.type = t
  /\ pc = "flush" =>
       /\ dest_[Len(dest_) - 1].kind = "hdr"
       /\ Last(dest_).kind = "data"
       /\ Last(dest_).len = DecodedLength(dest_[Len(dest_) - 1].rec)
       /\ Last(calls).n = DecodedLength(dest_[Len(dest_) - 1].rec)

\* The header and the payload of a fragment of kBlockSize - kHeaderSize =
\* 0x7FF9 bytes have been appended.
C15_Witness ==
  /\ pc = "flush"
  /\ length = FullPayload
  /\ dest_[Len(dest_) - 1].rec.lo = 249
  /\ dest_[Len(dest_) - 1].rec.hi = 127
  /\ Last(dest_).len = FullPayload

\* The payload that follows header i in the file.
PayloadOf(i) == SelectSeq(<<dest_[i + 1]>>, NonEmpty)

\* Header i and its payload both reached the file.
Complete(i) == i < Len(dest_) /\ dest_[i + 1].kind = "data"

C17_FileLengthMatchesOffset ==
  (pc = "idle" /\ failures = 0) =>
    FileSize(dest_) % kBlockSize = block_offset_ % kBlockSize

\* Two records were written without failure by a resumed writer, the last
\* call filled a trailer, and the file is longer than a block.
C17_Witness ==
  /\ AtRest
  /\ failures = 0
  /\ dest_length > 0
  /\ Len(returned) = 2
  /\ CallsOf("trailer") # {}
  /\ FileSize(dest_) > dest_length + kBlockSize
  /\ block_offset_ > 0

\* C18: in every state 0 <= block_offset_ <= kBlockSize, so that leftover
\* is never negative at the top of the loop (the assertion of line 49).
C18_OffsetWithinBlock ==
  /\ 0 <= block_offset_
  /\ block_offset_ <= kBlockSize
  /\ pc = "top" => Leftover >= 0

\* The top of the loop is reached with leftover = 0 in a call made after a
\* failed one, by a resumed writer.
C18_Witness ==
  /\ pc = "top"
  /\ Leftover = 0
  /\ dest_length > 0
  /\ failures > 0

\* C19: a First or Middle fragment ends at the end of its block, and
\* block_offset_ is kBlockSize when it has been emitted; a Middle or Last
\* fragment starts at offset 0, and no trailer is filled between the
\* fragments of one record.
C19_SplitAlignment ==
  /\ \A i \in 1..Len(emitted) :
       /\ emitted[i].type \in {kFirstType, kMiddleType} =>
            emitted[i].offset + kHeaderSize + emitted[i].length = kBlockSize
       /\ emitted[i].type \in {kMiddleType, kLastType} =>
            emitted[i].offset = 0
  /\ (pc = "tail" /\ Last(emitted).type \in {kFirstType, kMiddleType}) =>
       block_offset_ = kBlockSize
  /\ CallsOf("trailer") \subseteq {1}
  /\ (CallsOf("trailer") # {} /\ Len(emitted) >= 1) => emitted[1].ptr = 0

\* A record was split behind a half-used block: its First fragment started
\* inside the block, the Middle and Last ones at offset 0.
C19_Witness ==
  /\ AtRest
  /\ Len(emitted) >= 3
  /\ emitted[1].offset > 0
  /\ emitted[2].type = kMiddleType
  /\ Last(emitted).type = kLastType
  /\ Last(emitted).offset = 0

\* C20: a fragment without payload is the Full fragment of an empty record,
\* or the First fragment of a record with bytes whose AddRecord call started
\* at block_offset_ = kBlockSize - kHeaderSize; Middle and Last fragments
\* carry at least one byte.
C20_EmptyFragments ==
  \A i \in 1..Len(emitted) :
    /\ emitted[i].length = 0 =>
         \/ emitted[i].type = kFullType /\ slice.size = 0
         \/ /\ emitted[i].type = kFirstType
            /\ i = 1
            /\ slice.size > 0
            /\ entry_offset = kBlockSize - kHeaderSize
    /\ emitted[i].type \in {kMiddleType, kLastType} => emitted[i].length >= 1

\* A one-byte record was written as an empty First fragment and a Last
\* fragment of one byte.
C20_Witness ==
  /\ AtRest
  /\ slice.size = 1
  /\ entry_offset = kBlockSize - kHeaderSize
  /\ Len(emitted) = 2
  /\ emitted[1].type = kFirstType
  /\ emitted[1].length = 0
  /\ emitted[2].type = kLastType
  /\ emitted[2].length = 1

====
